---- MODULE Spec2Model ----
(***************************************************************************)
(* A model of main.py, the StartUp Age background generator: the drawing   *)
(* functions as operators over images, and the script's main block as a    *)
(* sequential state machine.                                               *)
(*                                                                         *)
(* An image is a record [mode, width, height, layers]; layers is the       *)
(* sequence of rectangles pasted on it, each [what, x, y, w, h].           *)
(* Percent values are carried as a whole number of half percents (3.5% is  *)
(* 7, 10% is 20), which every percent of the script is and which a double  *)
(* holds exactly.                                                          *)
(***************************************************************************)
EXTENDS Integers, Sequences, FiniteSets, TLC

VARIABLES
    pc,        \* position of the main block
    args,      \* the parsed command line
    env,       \* what image_filename and CYAN_LOGO_FILE hold
    canvas,    \* the module global `canvas`
    texture,   \* the local `texture`
    ratio,     \* position of the loop over ASPECT_RATIOS
    disk,      \* file name -> the image last saved under it
    writes,    \* the save calls made so far, in order
    log,       \* the logging.info records emitted so far
    err,       \* the exception that ended the run, "" when none
    call       \* the last call made by a caller that imported the module

vars == <<pc, args, env, canvas, texture, ratio, disk, writes, log, err, call>>

-----------------------------------------------------------------------------
(* Module constants                                                        *)

CANVAS_SIZE == <<3840, 1080>>
TEXTURE_SIZE == <<4096, 1080>>
DIALOG_HEIGHT_PERCENT == 66
\* DIALOG_WIDTH_RATIO = 0.75, as the fraction 3/4
DIALOG_WIDTH_RATIO == <<3, 4>>
ZONE_BORDER_SIZE == 10
\* The dict keeps insertion order; .keys() iterates in this order.
ASPECT_RATIOS ==
    << [name |-> "32:9", width |-> 32, height |-> 9],
       [name |-> "21:9", width |-> 21, height |-> 9],
       [name |-> "16:9", width |-> 16, height |-> 9],
       [name |-> "4:3",  width |-> 4,  height |-> 3] >>

-----------------------------------------------------------------------------
(* Images                                                                  *)

\* A name that is not bound (the global `canvas` before line 323 has run,
\* or in a process that imported the module), or a file that is absent.
Undefined == [mode |-> "undefined", width |-> 0, height |-> 0, layers |-> <<>>]

\* Image.new(mode, size)
NewImage(mode, size) ==
    [mode |-> mode, width |-> size[1], height |-> size[2], layers |-> <<>>]

\* image.paste(element, (x, y), element): the element's rectangle on top.
Paste(image, what, x, y, w, h) ==
    [image EXCEPT !.layers =
        Append(@, [what |-> what, x |-> x, y |-> y, w |-> w, h |-> h])]

\* An image usable as its own paste mask has an alpha channel.
HasAlpha(image) == image.mode = "RGBA"

OverlayNames == {"dialog"} \cup {ASPECT_RATIOS[i].name : i \in 1..Len(ASPECT_RATIOS)}

HasOverlay(image) ==
    \E i \in 1..Len(image.layers) : image.layers[i].what \in OverlayNames

-----------------------------------------------------------------------------
(* Python arithmetic.  `/` is IEEE double division, `*` double             *)
(* multiplication, round() rounds a double half to even.  The operators    *)
(* below compute, in integers, the result the doubles give: away from a    *)
(* tie the rounding error (below 2^-40) cannot change the nearest integer; *)
(* at a tie the sign and size of the error of the inexact quotient decide  *)
(* whether the product is the tie itself or a double next to it.           *)

Abs(n) == IF n < 0 THEN -n ELSE n

\* round(n / d) for a quotient the double holds exactly (d a power of two,
\* or n/d a tie): the nearest integer, a tie to the even one.
PyRound(n, d) ==
    LET q == n \div d
        r == n % d
    IN  IF 2 * r < d THEN q
        ELSE IF 2 * r > d THEN q + 1
        ELSE IF q % 2 = 0 THEN q ELSE q + 1

\* floor(log2(n / d)), the binary exponent of the quotient; n, d > 0
RECURSIVE Log2Floor(_, _)
Log2Floor(n, d) ==
    IF n >= 2 * d THEN 1 + Log2Floor(n, 2 * d)
    ELSE IF n < d THEN Log2Floor(2 * n, d) - 1
    ELSE 0

\* 2^k mod m, k >= 0, by repeated squaring
Square(n) == n * n

RECURSIVE Pow2Mod(_, _)
Pow2Mod(k, m) ==
    IF k = 0 THEN 1 % m
    ELSE IF k % 2 = 1 THEN (2 * Pow2Mod(k - 1, m)) % m
    ELSE Square(Pow2Mod(k \div 2, m)) % m

\* 2^k, k >= 0
RECURSIVE Pow2(_)
Pow2(k) == IF k = 0 THEN 1 ELSE 2 * Pow2(k - 1)

\* The double a / b is the 53-bit mantissa nearest to a * 2^k / b, with
\* k = 52 - floor(log2(a/b)).  Given m2 = a * 2^k mod 2b, SignedRemainder is
\* s, where the double equals a/b + s / (b * 2^k): minus the remainder when
\* rounded down, b minus the remainder when rounded up, a half-way remainder
\* to the even mantissa.
SignedRemainder(m2, b) ==
    LET r == m2 % b
    IN  IF r = 0 THEN 0
        ELSE IF 2 * r < b THEN -r
        ELSE IF 2 * r > b THEN b - r
        ELSE IF m2 >= b THEN b - r ELSE -r

DivError(a, b) ==
    SignedRemainder((a * Pow2Mod(52 - Log2Floor(a, b), 2 * b)) % (2 * b), b)

\* 2^d for d > 0, else 1: the two sides of a comparison are scaled by the
\* difference of two binary exponents, whichever way it points.
Scale(d) == IF d > 0 THEN Pow2(d) ELSE 1

\* round() of a double at or next to the tie num / den: the tie itself goes
\* to the even integer, a double below it down, one above it up.
RoundNearTie(num, den, is_tie, above) ==
    IF is_tie THEN PyRound(num, den)
    ELSE IF above THEN (num \div den) + 1 ELSE num \div den

\* Whether the double product (a / b) * (c2 / 2) is the tie V = a*c2/(2b).
\* With a/b off by s/(b*2^k) the exact product is V + s*c2/(2b*2^k), which
\* rounds back to V when that is at most half a unit in the last place of
\* V; d is the binary exponent of V minus that of a/b.
MulKeepsTie(s, b, c2, d) == s = 0 \/ Abs(s) * c2 * Scale(-d) <= b * Scale(d)

\* round((a / b) * (c2 / 2)) for integers a >= 0, b > 0 and any c2
RECURSIVE round_div_mul(_, _, _)
round_div_mul(a, b, c2) ==
    IF c2 < 0 THEN -round_div_mul(a, b, -c2)
    ELSE IF a = 0 \/ c2 = 0 THEN 0
    ELSE IF 2 * ((a * c2) % (2 * b)) # 2 * b THEN PyRound(a * c2, 2 * b)
    ELSE RoundNearTie(a * c2, 2 * b,
                      MulKeepsTie(DivError(a, b), b, c2,
                                  Log2Floor(a * c2, 2 * b) - Log2Floor(a, b)),
                      DivError(a, b) > 0)

\* Whether the double quotient a / (b / c) is the tie V = a*c/b.  With b/c
\* off by s/(c*2^k) the exact quotient is off by about V*s/(b*2^k), a little
\* less for s > 0 and a little more for s < 0; d is the binary exponent of V
\* minus that of b/c.
DivKeepsTie(s, num, b, d) ==
    \/ s = 0
    \/ 2 * num * Abs(s) * Scale(-d) < b * b * Scale(d)
    \/ (2 * num * Abs(s) * Scale(-d) = b * b * Scale(d) /\ s > 0)

\* round(a / (b / c)) for integers a >= 0, b > 0, c > 0; a divisor that is
\* too large gives a quotient below the exact one.
round_div_div(a, b, c) ==
    IF a = 0 THEN 0
    ELSE IF 2 * ((a * c) % b) # b THEN PyRound(a * c, b)
    ELSE RoundNearTie(a * c, b,
                      DivKeepsTie(DivError(b, c), a * c, b,
                                  Log2Floor(a * c, b) - Log2Floor(b, c)),
                      DivError(b, c) < 0)

-----------------------------------------------------------------------------
(* The drawing functions.  Each returns [err, canvas]: the exception it    *)
(* raised ("" when none) and the canvas it was given, as it left it.       *)

\* draw_diagnostic_text(image, text): findfont and truetype need a font of
\* the host; font is whether they find one.
draw_diagnostic_text(image, text, font) ==
    IF font
    THEN [err |-> "", image |-> Paste(image, text, 10, 10, 0, 0)]
    ELSE [err |-> "FontResolutionError", image |-> image]

\* Mutant of DialogHeight: int() in place of round()
DialogHeightTruncated(working_canvas) ==
    (working_canvas.height * DIALOG_HEIGHT_PERCENT) \div 100

\* Line 89
DialogHeight(working_canvas) ==
    round_div_mul(working_canvas.height, 100, 2 * DIALOG_HEIGHT_PERCENT)

\* Line 90: an integer times 0.75 is an exact double
DialogWidth(dialog_height) ==
    PyRound(dialog_height * DIALOG_WIDTH_RATIO[1], DIALOG_WIDTH_RATIO[2])

\* round((working_canvas.extent / 2) - (element.extent / 2)): halves are
\* exact doubles, and so is their difference.
CenterOffset(canvas_extent, element_extent) ==
    PyRound(canvas_extent - element_extent, 2)

\* Lines 98-105, given the dialog_area of lines 93-95
PlaceDialog(working_canvas, dialog_area, font) ==
    IF draw_diagnostic_text(dialog_area, "[Explorers dialog area]", font).err # ""
    THEN [err |-> "FontResolutionError", canvas |-> working_canvas]
    ELSE [err |-> "",
          canvas |-> Paste(working_canvas, "dialog",
                           CenterOffset(working_canvas.width, dialog_area.width),
                           CenterOffset(working_canvas.height, dialog_area.height),
                           dialog_area.width, dialog_area.height)]

draw_dialog_zone(working_canvas, font) ==
    PlaceDialog(working_canvas,
                NewImage("RGBA", <<DialogWidth(DialogHeight(working_canvas)),
                                   DialogHeight(working_canvas)>>),
                font)

\* Mutant of ZoneSize: the ratio taken upside down
ZoneSizeInverted(working_canvas, ratio_specs) ==
    <<round_div_mul(working_canvas.height, ratio_specs.width, 2 * ratio_specs.height),
      working_canvas.height>>

\* zone_width (lines 120-122) and zone_height (line 119)
ZoneSize(working_canvas, ratio_specs) ==
    <<round_div_mul(working_canvas.height, ratio_specs.height, 2 * ratio_specs.width),
      working_canvas.height>>

\* ImageOps.expand adds the border on every side.
Expand(image, border) ==
    [image EXCEPT !.width = @ + 2 * border, !.height = @ + 2 * border]

\* Lines 140-146, given the ratio_area of lines 125-137
PlaceZone(working_canvas, ratio_name, ratio_area, font) ==
    IF draw_diagnostic_text(ratio_area, ratio_name, font).err # ""
    THEN [err |-> "FontResolutionError", canvas |-> working_canvas]
    ELSE [err |-> "",
          canvas |-> Paste(working_canvas, ratio_name,
                           CenterOffset(working_canvas.width, ratio_area.width), 0,
                           ratio_area.width, ratio_area.height)]

\* Lines 125-146, given the zone's size; Image.new refuses a negative size
DrawZone(working_canvas, ratio_name, zone, font) ==
    IF zone[1] - ZONE_BORDER_SIZE * 2 < 0 \/ zone[2] - ZONE_BORDER_SIZE * 2 < 0
    THEN [err |-> "ValueError", canvas |-> working_canvas]
    ELSE PlaceZone(working_canvas, ratio_name,
                   Expand(NewImage("RGBA", <<zone[1] - ZONE_BORDER_SIZE * 2,
                                             zone[2] - ZONE_BORDER_SIZE * 2>>),
                          ZONE_BORDER_SIZE),
                   font)

draw_aspect_ratio_zone(working_canvas, ratio_name, ratio_specs, font) ==
    DrawZone(working_canvas, ratio_name, ZoneSize(working_canvas, ratio_specs), font)

\* Lines 165-166
NormalizeMode(mode) ==
    IF mode \notin {"horizontal", "vertical"} THEN "horizontal" ELSE mode

\* Mutant of percent_to_pixels: the two axes exchanged
percent_to_pixels_swapped(working_canvas, percent, mode) ==
    IF NormalizeMode(mode) = "horizontal"
    THEN round_div_mul(working_canvas.height, 100, percent)
    ELSE round_div_mul(working_canvas.width, 100, percent)

percent_to_pixels(working_canvas, percent, mode) ==
    IF NormalizeMode(mode) = "horizontal"
    THEN round_div_mul(working_canvas.width, 100, percent)
    ELSE round_div_mul(working_canvas.height, 100, percent)

\* Mutant of draw_canvas_background: a missing file is skipped
draw_canvas_background_lenient(working_canvas, file) ==
    IF file = Undefined \/ ~HasAlpha(file)
    THEN [err |-> "", canvas |-> working_canvas]
    ELSE [err |-> "",
          canvas |-> Paste(working_canvas, "background", 0, 0,
                           working_canvas.width, working_canvas.height)]

\* Image.open(image_filename), ImageOps.fit to the canvas size, paste with
\* the image as its own mask.  file is what the file name holds.
draw_canvas_background(working_canvas, file) ==
    IF file = Undefined
    THEN [err |-> "ImageLoadError", canvas |-> working_canvas]
    ELSE IF ~HasAlpha(file)
    THEN \* paste: bad transparency mask
         [err |-> "ValueError", canvas |-> working_canvas]
    ELSE [err |-> "",
          canvas |-> Paste(working_canvas, "background", 0, 0,
                           working_canvas.width, working_canvas.height)]

\* Mutant of NormalizeHorizontal: the fallback is the parameter's default
NormalizeHorizontalDefault(horizontal_align) ==
    IF horizontal_align \notin {"left", "right", "center"}
    THEN "center" ELSE horizontal_align

\* Lines 232-233 and 256-257: an alignment that is none of the three
\* known ones is replaced by the first.
NormalizeHorizontal(horizontal_align) ==
    IF horizontal_align \notin {"left", "right", "center"}
    THEN "left" ELSE horizontal_align

NormalizeVertical(vertical_align) ==
    IF vertical_align \notin {"top", "middle", "bottom"}
    THEN "top" ELSE vertical_align

\* ImageOps.scale(logo_image, target_height / logo_image.height): ValueError
\* for a factor <= 0, else a resize to (round(factor * width),
\* round(factor * height)), which refuses a side below 1.
Resized(logo_image, width, height) ==
    IF width < 1 \/ height < 1
    THEN [err |-> "ValueError", width |-> logo_image.width, height |-> logo_image.height]
    ELSE [err |-> "", width |-> width, height |-> height]

ScaleTo(logo_image, target_height) ==
    IF target_height <= 0
    THEN [err |-> "ValueError", width |-> logo_image.width, height |-> logo_image.height]
    ELSE Resized(logo_image,
                 round_div_mul(target_height, logo_image.height, 2 * logo_image.width),
                 round_div_mul(target_height, logo_image.height, 2 * logo_image.height))

\* Lines 226-229: the logo's size after the optional scaling.  None and 0
\* both skip it.
ScaledLogo(working_canvas, logo_image, scaled_height_percent) ==
    IF scaled_height_percent = 0
    THEN [err |-> "", width |-> logo_image.width, height |-> logo_image.height]
    ELSE ScaleTo(logo_image,
                 round_div_div(working_canvas.height, 200, scaled_height_percent))

\* Mutant of HPlace: right padding pushes inward, as bottom padding does
HPlaceInward(global_canvas, working_canvas, logo_width, align, left, right) ==
    IF align = "left"
    THEN [err |-> "", value |-> 0 + left]
    ELSE IF align = "center"
    THEN IF global_canvas = Undefined
         THEN [err |-> "NameError", value |-> 0]
         ELSE [err |-> "",
               value |-> PyRound(global_canvas.width - logo_width
                                 + 2 * left - 2 * right, 2)]
    ELSE [err |-> "", value |-> working_canvas.width - logo_width - right]

\* Lines 235-253, given the alignment after line 233 and the two paddings
\* in pixels.  global_canvas is the module global `canvas`, which the
\* center branch reads in place of working_canvas; reading it when it is
\* not bound raises NameError.
HPlace(global_canvas, working_canvas, logo_width, align, left, right) ==
    IF align = "left"
    THEN [err |-> "", value |-> 0 + left]
    ELSE IF align = "center"
    THEN IF global_canvas = Undefined
         THEN [err |-> "NameError", value |-> 0]
         ELSE [err |-> "",
               value |-> PyRound(global_canvas.width - logo_width
                                 + 2 * left - 2 * right, 2)]
    ELSE [err |-> "", value |-> working_canvas.width - logo_width + right]

HOffset(global_canvas, working_canvas, logo_width, horizontal_align, padding_left, padding_right) ==
    HPlace(global_canvas, working_canvas, logo_width,
           NormalizeHorizontal(horizontal_align),
           percent_to_pixels(working_canvas, padding_left, "horizontal"),
           percent_to_pixels(working_canvas, padding_right, "horizontal"))

\* Lines 259-272; the middle branch reads the global `canvas` as well.
VPlace(global_canvas, working_canvas, logo_height, align, top, bottom) ==
    IF align = "top"
    THEN [err |-> "", value |-> 0 + top]
    ELSE IF align = "middle"
    THEN IF global_canvas = Undefined
         THEN [err |-> "NameError", value |-> 0]
         ELSE [err |-> "",
               value |-> PyRound(global_canvas.height - logo_height
                                 + 2 * top - 2 * bottom, 2)]
    ELSE [err |-> "", value |-> working_canvas.height - logo_height - bottom]

VOffset(global_canvas, working_canvas, logo_height, vertical_align, padding_top, padding_bottom) ==
    VPlace(global_canvas, working_canvas, logo_height,
           NormalizeVertical(vertical_align),
           percent_to_pixels(working_canvas, padding_top, "vertical"),
           percent_to_pixels(working_canvas, padding_bottom, "vertical"))

\* A step of the function that an earlier exception kept from running.
NotRun == [err |-> "not run", value |-> 0]

\* Line 275 and the function's outcome, given the scaled logo and the two
\* offsets: the first exception in program order, and the paste when there
\* is none.  The logo is its own paste mask.
PasteLogo(working_canvas, file, logo, h, v) ==
    IF h.err # "" \/ v.err # "" \/ ~HasAlpha(file)
    THEN [err |-> IF h.err # "" THEN h.err
                  ELSE IF v.err # "" THEN v.err ELSE "ValueError",
          canvas |-> working_canvas, width |-> logo.width, height |-> logo.height,
          h |-> h, v |-> IF h.err # "" THEN NotRun ELSE v]
    ELSE [err |-> "",
          canvas |-> Paste(working_canvas, "logo", h.value, v.value,
                           logo.width, logo.height),
          width |-> logo.width, height |-> logo.height, h |-> h, v |-> v]

\* Lines 231-275, given the logo of lines 223-229
PlaceLogo(global_canvas, working_canvas, file, logo, horizontal_align, vertical_align, padding) ==
    IF logo.err # ""
    THEN [err |-> logo.err, canvas |-> working_canvas, width |-> logo.width,
          height |-> logo.height, h |-> NotRun, v |-> NotRun]
    ELSE PasteLogo(working_canvas, file, logo,
                   HOffset(global_canvas, working_canvas, logo.width,
                           horizontal_align, padding[1], padding[2]),
                   VOffset(global_canvas, working_canvas, logo.height,
                           vertical_align, padding[3], padding[4]))

\* file is what image_filename holds; padding is <<left, right, top, bottom>>.
\* Returns the exception, the canvas, the logo's size as pasted and the two
\* offsets as computed.
draw_logo_element(global_canvas, working_canvas, file, horizontal_align, vertical_align, padding, scaled_height_percent) ==
    IF file = Undefined
    THEN [err |-> "ImageLoadError", canvas |-> working_canvas, width |-> 0,
          height |-> 0, h |-> NotRun, v |-> NotRun]
    ELSE PlaceLogo(global_canvas, working_canvas, file,
                   ScaledLogo(working_canvas, file, scaled_height_percent),
                   horizontal_align, vertical_align, padding)

-----------------------------------------------------------------------------
(* Bounds and input sets                                                   *)

MaxExtent == 4
MaxLogo == 3
MaxPercent == 2

\* Canvas widths and heights tried by callers: the small ones, and some
\* where a percent of the extent is a tie the doubles miss (4.1 * 15).
Extents == (0..MaxExtent) \cup {50, 410, 411}

\* Percents, in half percents: around zero, and 3.5%, 10%, 12.5%, 15%.
Percents == (-MaxPercent..MaxPercent) \cup {7, 20, 25, 30, -7, -30}

Modes == {"horizontal", "vertical", "diagonal"}

\* The file names the three options can carry; the defaults, in any
\* assignment, two options naming one file included.
FileNames == {"output.jpg", "texture.jpg", "diagnostic.jpg"}

\* What a file to be read can hold: nothing, or an image with or without
\* an alpha channel.
LogoFiles ==
    {Undefined, NewImage("RGB", <<MaxLogo, MaxLogo>>)}
    \cup {NewImage("RGBA", <<w, h>>) : w \in 1..MaxLogo, h \in {MaxLogo, 40, 216}}

BackgroundFiles ==
    {Undefined, NewImage("RGB", <<1920, 1080>>), NewImage("RGBA", <<1920, 1080>>)}

NoCall == [fn |-> "none"]

-----------------------------------------------------------------------------
(* The main block, lines 278-357                                           *)

\* An exception propagates out of the script: nothing below it runs.
Raise(e) ==
    /\ err' = e
    /\ pc' = "error"

\* canvas.save / texture.save: the file holds the image, or the save raises
\* and leaves no file of its own behind.
Save(site, name, image) ==
    /\ disk' = [disk EXCEPT ![name] = image]
    /\ writes' = Append(writes, [site |-> site, name |-> name, image |-> image])

\* Mutant of Draw: the exception is noted and the block goes on
DrawBestEffort(r, next) ==
    IF r.err # ""
    THEN err' = r.err /\ pc' = next /\ UNCHANGED canvas
    ELSE canvas' = r.canvas /\ pc' = next /\ UNCHANGED err

\* A call of a drawing function on the canvas: its exception propagates,
\* or the canvas is as the function left it and the block goes on.
Draw(r, next) ==
    IF r.err # ""
    THEN Raise(r.err) /\ UNCHANGED canvas
    ELSE canvas' = r.canvas /\ pc' = next /\ UNCHANGED err

\* Line 323
NewCanvas ==
    /\ pc = "new_canvas"
    /\ canvas' = NewImage("RGB", CANVAS_SIZE)
    /\ pc' = "background"
    /\ UNCHANGED <<args, env, texture, ratio, disk, writes, log, err, call>>

\* Line 326
DrawCanvasBackground ==
    /\ pc = "background"
    /\ Draw(draw_canvas_background(canvas, env.background), "logo")
    /\ UNCHANGED <<args, env, texture, ratio, disk, writes, log, call>>

\* Mutant of DrawLogoElement: with --diagnostics the dialog zone is drawn
\* right after the logo, before anything is saved
DrawLogoThenDialog ==
    /\ pc = "logo"
    /\ Draw(IF args.diagnostics
            THEN draw_dialog_zone(
                     draw_logo_element(canvas, canvas, env.logo, "center", "bottom",
                                       <<0, 0, 0, 7>>, 20).canvas, TRUE)
            ELSE draw_logo_element(canvas, canvas, env.logo, "center", "bottom",
                                   <<0, 0, 0, 7>>, 20),
            "save_output")
    /\ UNCHANGED <<args, env, texture, ratio, disk, writes, log, call>>

\* Lines 329-336: centered on the bottom edge, 10% high, 3.5% above it
DrawLogoElement ==
    /\ pc = "logo"
    /\ Draw(draw_logo_element(canvas, canvas, env.logo, "center", "bottom",
                              <<0, 0, 0, 7>>, 20),
            "save_output")
    /\ UNCHANGED <<args, env, texture, ratio, disk, writes, log, call>>

\* Lines 339-340; the record names the texture file, as line 340 does
SaveOutput ==
    /\ pc = "save_output"
    /\ \E ok \in BOOLEAN :
        IF ok
        THEN /\ Save("output", args.output_filename, canvas)
             /\ log' = Append(log, <<"Saved unscaled image as", args.texture_filename>>)
             /\ pc' = "resize"
             /\ UNCHANGED err
        ELSE Raise("FileWriteError") /\ UNCHANGED <<disk, writes, log>>
    /\ UNCHANGED <<args, env, canvas, texture, ratio, call>>

\* Line 343: a new image of the texture size with the canvas's content
Resize ==
    /\ pc = "resize"
    /\ texture' = [canvas EXCEPT !.width = TEXTURE_SIZE[1], !.height = TEXTURE_SIZE[2]]
    /\ pc' = "save_texture"
    /\ UNCHANGED <<args, env, canvas, ratio, disk, writes, log, err, call>>

\* Mutant of SaveTexture: line 347's test left out
SaveTextureThenDiagnostics ==
    /\ pc = "save_texture"
    /\ \E ok \in BOOLEAN :
        IF ok
        THEN /\ Save("texture", args.texture_filename, texture)
             /\ log' = Append(log, <<"Saved texture-scaled image as", args.texture_filename>>)
             /\ pc' = "dialog"
             /\ UNCHANGED err
        ELSE Raise("FileWriteError") /\ UNCHANGED <<disk, writes, log>>
    /\ UNCHANGED <<args, env, canvas, texture, ratio, call>>

\* Lines 344-347
SaveTexture ==
    /\ pc = "save_texture"
    /\ \E ok \in BOOLEAN :
        IF ok
        THEN /\ Save("texture", args.texture_filename, texture)
             /\ log' = Append(log, <<"Saved texture-scaled image as", args.texture_filename>>)
             /\ pc' = IF args.diagnostics THEN "dialog" ELSE "done"
             /\ UNCHANGED err
        ELSE Raise("FileWriteError") /\ UNCHANGED <<disk, writes, log>>
    /\ UNCHANGED <<args, env, canvas, texture, ratio, call>>

\* Line 349
DrawDialogZone ==
    /\ pc = "dialog"
    /\ \E font \in BOOLEAN :
        Draw(draw_dialog_zone(canvas, font), "zones")
    /\ UNCHANGED <<args, env, texture, ratio, disk, writes, log, call>>

\* Lines 352-353: one iteration of the loop
DrawAspectRatioZone ==
    /\ pc = "zones"
    /\ \E font \in BOOLEAN :
        /\ Draw(draw_aspect_ratio_zone(canvas, ASPECT_RATIOS[ratio].name,
                                       ASPECT_RATIOS[ratio], font),
                IF ratio = Len(ASPECT_RATIOS) THEN "save_diagnostic" ELSE "zones")
        /\ ratio' = IF pc' = "error" THEN ratio ELSE ratio + 1
    /\ UNCHANGED <<args, env, texture, disk, writes, log, call>>

\* Lines 356-357
SaveDiagnostic ==
    /\ pc = "save_diagnostic"
    /\ \E ok \in BOOLEAN :
        IF ok
        THEN /\ Save("diagnostic", args.diagnostic_filename, canvas)
             /\ log' = Append(log, <<"Saved diagnostic image as", args.diagnostic_filename>>)
             /\ pc' = "done"
             /\ UNCHANGED err
        ELSE Raise("FileWriteError") /\ UNCHANGED <<disk, writes, log>>
    /\ UNCHANGED <<args, env, canvas, texture, ratio, call>>

\* After parse_args and basicConfig: nothing drawn, nothing saved.
Init ==
    /\ pc = "new_canvas"
    /\ args \in [output_filename : FileNames, texture_filename : FileNames,
                 diagnostics : BOOLEAN, diagnostic_filename : FileNames]
    /\ env \in [background : BackgroundFiles, logo : LogoFiles]
    /\ canvas = Undefined
    /\ texture = Undefined
    /\ ratio = 1
    /\ disk = [n \in FileNames |-> Undefined]
    /\ writes = <<>>
    /\ log = <<>>
    /\ err = ""
    /\ call = NoCall

Next ==
    \/ NewCanvas
    \/ DrawCanvasBackground
    \/ DrawLogoElement
    \/ SaveOutput
    \/ Resize
    \/ SaveTexture
    \/ DrawDialogZone
    \/ DrawAspectRatioZone
    \/ SaveDiagnostic

Spec == Init /\ [][Next]_vars

-----------------------------------------------------------------------------
(* Callers that import the module and call its functions on canvases of    *)
(* their own.  The main block has not run; the global `canvas` is bound    *)
(* only if the caller bound it.  call is the call made and what it         *)
(* returned.                                                               *)

LibCanvases == {NewImage("RGB", <<w, h>>) : w \in Extents, h \in Extents}

LogoCanvases == {NewImage("RGB", <<w, h>>) : w \in {50, 410}, h \in {50, 411}}

DiagCanvases ==
    {NewImage("RGB", <<w, h>>) : w \in Extents \cup {534, 535, 3840},
                                 h \in Extents \cup {25, 1080}}

HorizontalAligns == {"left", "center", "right", "justify"}
VerticalAligns == {"top", "middle", "bottom", "baseline"}
Paddings == {0, 7}
\* None (as 0), 10% and 11%
HeightPercents == {0, 20, 22}

Imported(globals) ==
    /\ pc = "imported"
    /\ args = [output_filename |-> "output.jpg", texture_filename |-> "texture.jpg",
               diagnostics |-> FALSE, diagnostic_filename |-> "diagnostic.jpg"]
    /\ env = [background |-> Undefined, logo |-> Undefined]
    /\ canvas \in globals
    /\ texture = Undefined
    /\ ratio = 1
    /\ disk = [n \in FileNames |-> Undefined]
    /\ writes = <<>>
    /\ log = <<>>
    /\ err = ""
    /\ call = NoCall

Extent(image, mode) == IF mode = "vertical" THEN image.height ELSE image.width

\* percent_to_pixels on two canvases with the same percent and mode
CallPercentToPixels ==
    /\ call = NoCall
    /\ \E a \in LibCanvases, b \in LibCanvases, percent \in Percents, mode \in Modes :
        call' = [fn |-> "percent_to_pixels", a |-> a, b |-> b,
                 percent |-> percent, mode |-> mode,
                 ra |-> percent_to_pixels(a, percent, mode),
                 rb |-> percent_to_pixels(b, percent, mode)]
    /\ UNCHANGED <<pc, args, env, canvas, texture, ratio, disk, writes, log, err>>

CallDrawLogoElement ==
    /\ call = NoCall
    /\ \E working_canvas \in LogoCanvases, file \in LogoFiles,
          horizontal_align \in HorizontalAligns, vertical_align \in VerticalAligns,
          padding \in Paddings \X Paddings \X Paddings \X Paddings,
          scaled_height_percent \in HeightPercents :
        call' = [fn |-> "draw_logo_element", working_canvas |-> working_canvas,
                 file |-> file, horizontal_align |-> horizontal_align,
                 vertical_align |-> vertical_align, padding |-> padding,
                 scaled_height_percent |-> scaled_height_percent,
                 ret |-> draw_logo_element(canvas, working_canvas, file,
                                           horizontal_align, vertical_align,
                                           padding, scaled_height_percent)]
    /\ UNCHANGED <<pc, args, env, canvas, texture, ratio, disk, writes, log, err>>

CallDrawDialogZone ==
    /\ call = NoCall
    /\ \E working_canvas \in DiagCanvases, font \in BOOLEAN :
        call' = [fn |-> "draw_dialog_zone", working_canvas |-> working_canvas,
                 font |-> font, ret |-> draw_dialog_zone(working_canvas, font)]
    /\ UNCHANGED <<pc, args, env, canvas, texture, ratio, disk, writes, log, err>>

CallDrawAspectRatioZone ==
    /\ call = NoCall
    /\ \E working_canvas \in DiagCanvases, i \in 1..Len(ASPECT_RATIOS), font \in BOOLEAN :
        call' = [fn |-> "draw_aspect_ratio_zone", working_canvas |-> working_canvas,
                 ratio |-> i, font |-> font,
                 ret |-> draw_aspect_ratio_zone(working_canvas, ASPECT_RATIOS[i].name,
                                                ASPECT_RATIOS[i], font)]
    /\ UNCHANGED <<pc, args, env, canvas, texture, ratio, disk, writes, log, err>>

InitPercent == Imported({Undefined})
SpecPercent == InitPercent /\ [][CallPercentToPixels]_vars

InitLogo == Imported({Undefined} \cup LogoCanvases)
SpecLogo == InitLogo /\ [][CallDrawLogoElement]_vars

InitDiag == Imported({Undefined})
NextDiag == CallDrawDialogZone \/ CallDrawAspectRatioZone
SpecDiag == InitDiag /\ [][NextDiag]_vars

-----------------------------------------------------------------------------
(* Properties                                                              *)

\* The save calls made, by the call site that made them
Sites == [i \in DOMAIN writes |-> writes[i].site]

Saved(site) == \E i \in DOMAIN writes : writes[i].site = site

\* The files the run has written
Written == {n \in FileNames : disk[n] # Undefined}

DistinctNames ==
    Cardinality({args.output_filename, args.texture_filename,
                 args.diagnostic_filename}) = 3

Running == pc \notin {"done", "error"}

\* The aspect-ratio zones pasted on the canvas, in the order pasted
ZoneLayers ==
    SelectSeq(canvas.layers,
              LAMBDA l : l.what \in {ASPECT_RATIOS[i].name : i \in 1..Len(ASPECT_RATIOS)})

\* C1: the canvas carries an overlay only in a run with --diagnostics and
\* only once the output and the texture have both been saved; the texture
\* image and every image saved by the output and texture saves carry none,
\* and a file holding an overlay is the one named by --diagnostic-filename.
C1_OverlaysOnlyAfterSaves ==
    /\ HasOverlay(canvas) => args.diagnostics /\ Saved("output") /\ Saved("texture")
    /\ ~HasOverlay(texture)
    /\ \A i \in DOMAIN writes :
        HasOverlay(writes[i].image) => writes[i].site = "diagnostic"
    /\ \A n \in FileNames : HasOverlay(disk[n]) => n = args.diagnostic_filename

C1_Witness ==
    /\ pc = "done"
    /\ args.diagnostics
    /\ Len(writes) = 3
    /\ HasOverlay(disk[args.diagnostic_filename])
    /\ ~HasOverlay(writes[1].image) /\ ~HasOverlay(writes[2].image)
    /\ Len(ZoneLayers) = 4

\* C2: a run in which no step fails goes on to the end, and at the end it
\* has made the output save and the texture save, in that order, followed
\* by the diagnostic save exactly when --diagnostics is set; with three
\* different file names the files written are those two, or those three.
C2_FilesWritten ==
    /\ Running => ENABLED Next
    /\ pc = "done" =>
        /\ err = ""
        /\ Sites = IF args.diagnostics
                   THEN <<"output", "texture", "diagnostic">>
                   ELSE <<"output", "texture">>
        /\ writes[1].name = args.output_filename
        /\ writes[2].name = args.texture_filename
        /\ args.diagnostics => writes[3].name = args.diagnostic_filename
        /\ DistinctNames =>
            Written = {args.output_filename, args.texture_filename}
                      \cup (IF args.diagnostics THEN {args.diagnostic_filename} ELSE {})

C2_Witness ==
    /\ pc = "done"
    /\ ~args.diagnostics
    /\ DistinctNames
    /\ Cardinality(Written) = 2
    /\ disk[args.diagnostic_filename] = Undefined

\* C3: a run whose background file cannot be loaded ends at that load with
\* an image-load error, and so does one whose logo file cannot be loaded
\* (unless the background failed first); no save has been made and no file
\* written, and the run takes no further step.
C3_LoadFailureWritesNothing ==
    /\ err = "ImageLoadError" =>
        pc = "error" /\ writes = <<>> /\ Written = {} /\ ~ENABLED Next
    /\ (env.background = Undefined /\ pc \notin {"new_canvas", "background"}) =>
        err = "ImageLoadError"
    /\ (env.logo = Undefined /\ pc \notin {"new_canvas", "background", "logo"}) =>
        /\ pc = "error"
        /\ writes = <<>>
        /\ HasAlpha(env.background) => err = "ImageLoadError"

C3_Witness ==
    /\ pc = "error"
    /\ err = "ImageLoadError"
    /\ env.background = Undefined
    /\ canvas = NewImage("RGB", CANVAS_SIZE)

\* C4: no step leaves the error state; a step that fails saves nothing and
\* draws nothing; a save made stays made and a file written stays written;
\* and after a font failure, which only a run with --diagnostics can have,
\* the output and texture saves have been made, their files are on disk,
\* and no diagnostic save has been made (so a diagnostic file name of its
\* own names no file).
C4_AbortWithoutRollback ==
    [][ /\ pc # "error"
        /\ \A i \in DOMAIN writes : i \in DOMAIN writes' /\ writes'[i] = writes[i]
        /\ \A n \in FileNames : disk[n] # Undefined => disk'[n] # Undefined
        /\ pc' = "error" =>
            err' # "" /\ writes' = writes /\ disk' = disk /\ canvas' = canvas
        /\ err' = "FontResolutionError" =>
            /\ args.diagnostics
            /\ pc' = "error"
            /\ [i \in DOMAIN writes' |-> writes'[i].site] = <<"output", "texture">>
            /\ disk'[args.output_filename] # Undefined
            /\ disk'[args.texture_filename] # Undefined
            /\ args.diagnostic_filename \notin {args.output_filename, args.texture_filename}
                => disk'[args.diagnostic_filename] = Undefined
      ]_vars

C4_Witness ==
    /\ pc = "error"
    /\ err = "FontResolutionError"
    /\ ~HasOverlay(canvas)
    /\ Sites = <<"output", "texture">>
    /\ DistinctNames
    /\ Written = {args.output_filename, args.texture_filename}

\* C5: for a centered logo with no left or right padding whose horizontal
\* offset is computed, the offset is within 1 pixel of half the difference
\* between the width of the canvas passed and the width of the logo.
C5_CenteredOnWorkingCanvas ==
    (/\ call.fn = "draw_logo_element"
     /\ call.horizontal_align = "center"
     /\ call.padding[1] = 0 /\ call.padding[2] = 0
     /\ call.ret.h.err = "")
    => Abs(2 * call.ret.h.value - (call.working_canvas.width - call.ret.width)) <= 2

C7_AlignmentFallback ==
    call.fn = "draw_logo_element" =>
        /\ (call.ret.h # NotRun /\ call.horizontal_align \notin {"left", "center", "right"}) =>
            /\ call.ret.h.err = ""
            /\ call.ret.h = HOffset(canvas, call.working_canvas, call.ret.width, "left",
                                    call.padding[1], call.padding[2])
        /\ (call.ret.v # NotRun /\ call.vertical_align \notin {"top", "middle", "bottom"}) =>
            /\ call.ret.v.err = ""
            /\ call.ret.v = VOffset(canvas, call.working_canvas, call.ret.height, "top",
                                    call.padding[3], call.padding[4])

C7_Witness ==
    /\ call.fn = "draw_logo_element"
    /\ canvas = Undefined
    /\ call.horizontal_align = "justify"
    /\ call.vertical_align = "baseline"
    /\ call.padding = <<7, 0, 7, 0>>
    /\ call.working_canvas.width = 410
    /\ call.ret.err = ""
    /\ call.ret.h.value = 14

\* C8: percent_to_pixels gives 0 for 0 percent; for one percent and mode and
\* two canvases, the one with the smaller extent on the axis used never
\* gets the larger value for a percent >= 0, nor the smaller for a percent
\* <= 0; the value is a nearest integer of percent * extent / 100, and the
\* even one when the product is a tie the doubles hold exactly.
C8_PercentToPixels ==
    call.fn = "percent_to_pixels" =>
        /\ call.percent = 0 => call.ra = 0 /\ call.rb = 0
        /\ (Extent(call.a, call.mode) <= Extent(call.b, call.mode) /\ call.percent >= 0)
            => call.ra <= call.rb
        /\ (Extent(call.a, call.mode) <= Extent(call.b, call.mode) /\ call.percent <= 0)
            => call.ra >= call.rb
        /\ Abs(200 * call.ra - Extent(call.a, call.mode) * call.percent) <= 100
        /\ (/\ Extent(call.a, call.mode) % 25 = 0
            /\ Abs(200 * call.ra - Extent(call.a, call.mode) * call.percent) = 100)
            => call.ra % 2 = 0

C8_Witness ==
    /\ call.fn = "percent_to_pixels"
    /\ call.mode = "vertical"
    /\ call.percent = 30
    /\ call.a.height = 410 /\ call.a.width = 0
    /\ call.b.height = 411 /\ call.b.width = 0
    /\ call.ra = 61
    /\ call.rb = 62

\* The dialog rectangle a draw_dialog_zone call pasted
DialogLayer == call.ret.canvas.layers[Len(call.ret.canvas.layers)]

\* C9: on a canvas 1080 high the dialog rectangle is 535 wide and 713 high
\* and its top-left corner is within 1 pixel of the centered position on
\* both axes; on the 3840x1080 canvas it lies inside the canvas.
C9_DialogZone ==
    (/\ call.fn = "draw_dialog_zone"
     /\ call.working_canvas.height = 1080
     /\ call.ret.err = "")
    => /\ DialogLayer.what = "dialog"
       /\ DialogLayer.h = 713
       /\ DialogLayer.w = 535
       /\ Abs(2 * DialogLayer.x - (call.working_canvas.width - 535)) <= 2
       /\ Abs(2 * DialogLayer.y - (1080 - 713)) <= 2
       /\ call.working_canvas.width = 3840 =>
           /\ DialogLayer.x >= 0 /\ DialogLayer.x + DialogLayer.w <= 3840
           /\ DialogLayer.y >= 0 /\ DialogLayer.y + DialogLayer.h <= 1080

C9_Witness ==
    /\ call.fn = "draw_dialog_zone"
    /\ call.working_canvas.width = 3840
    /\ call.working_canvas.height = 1080
    /\ call.ret.err = ""
    /\ DialogLayer.x = 1652
    /\ DialogLayer.y = 184

\* C10: the zones on the main block's canvas are those of ASPECT_RATIOS in
\* its order; each is as high as the canvas and as wide as the canvas
\* height times the ratio, rounded, sits at the top, centered, inside the
\* canvas, and inside the zone drawn before it.
C10_ZonesNested ==
    \A i \in 1..Len(ZoneLayers) :
        /\ ZoneLayers[i].what = ASPECT_RATIOS[i].name
        /\ ZoneLayers[i].h = canvas.height
        /\ ZoneLayers[i].w =
             PyRound(canvas.height * ASPECT_RATIOS[i].width, ASPECT_RATIOS[i].height)
        /\ ZoneLayers[i].y = 0
        /\ Abs(2 * ZoneLayers[i].x - (canvas.width - ZoneLayers[i].w)) <= 1
        /\ ZoneLayers[i].x >= 0
        /\ ZoneLayers[i].x + ZoneLayers[i].w <= canvas.width
        /\ i > 1 =>
            /\ ZoneLayers[i - 1].x <= ZoneLayers[i].x
            /\ ZoneLayers[i].x + ZoneLayers[i].w
                 <= ZoneLayers[i - 1].x + ZoneLayers[i - 1].w

C10_Witness ==
    /\ pc = "save_diagnostic"
    /\ canvas.width = 3840 /\ canvas.height = 1080
    /\ Len(ZoneLayers) = 4
    /\ ZoneLayers[1].x = 0 /\ ZoneLayers[1].w = 3840
    /\ ZoneLayers[2].x = 660 /\ ZoneLayers[2].w = 2520
    /\ ZoneLayers[3].x = 960 /\ ZoneLayers[3].w = 1920
    /\ ZoneLayers[4].x = 1200 /\ ZoneLayers[4].w = 1440

====
